---- MODULE Spec2Model ----
(***************************************************************************)
(* State machine of the AI Movie Script Generator front end:               *)
(*   App.tsx            - the Application Shell and its Scene Store        *)
(*   unnamed/part_001   - the SceneCard component (Scene View)             *)
(*   unnamed/part_000   - generateMovieScript / generateImage clients      *)
(*   unnamed/part_002   - the Scene / MovieScript types                    *)
(*                                                                         *)
(* One action is one browser task: an event handler or the continuation of *)
(* a resolved promise, followed by the renders and useEffect callbacks it  *)
(* causes, run until no state changes (React batches the state updates of  *)
(* one task and flushes the passive effects of a render before the next    *)
(* task; this is the behaviour of a React 18+ root).                       *)
(***************************************************************************)
EXTENDS Integers, Sequences, FiniteSets, TLC

\* ---------------------------------------------------------------- bounds
MaxScenes == 2      \* most scenes a generated script carries
MaxReqs == 2        \* most image requests outstanding at once
MaxTrigger == 1     \* highest value of the save-signal counter
MaxSteps == 11      \* most tasks (events and promise continuations) of a run
MaxStoreLen == 3    \* longest scene sequence of the store-only specification
MaxClientScenes == 2  \* most scenes of a response of the client-only specification

\* ------------------------------------------------------ input value sets
Ideas == {<<32>>, <<97>>}                \* " " and "a" as character codes
GenPrompts == {<<1>>}                    \* imagePrompt texts the model returns
TypedPrompts == {<<2>>}                  \* imagePrompt texts the user types
TypedTitles == {"u"}                     \* title texts the user types

Range(s) == {s[i] : i \in DOMAIN s}

\* The element of a one-element set. {F(x) : x \in {e}} binds x to the value
\* of e, so Only({F(x) : x \in {e}}) is F(e) with e evaluated once.
Only(S) == CHOOSE x \in S : TRUE
Max2(a, b) == IF a >= b THEN a ELSE b

\* ------------------------------------------------------------ data model
\* A Scene object. id is the uuid given at generation; (id, obj) is the
\* JavaScript object identity: obj counts the copies {...prev, [name]: value}
\* made of the scene with that id (React compares dependencies with
\* Object.is).
Scene(obj, id, title, description, dialogue, imagePrompt) ==
  [kind |-> "scene", obj |-> obj, id |-> id, title |-> title,
   description |-> description, dialogue |-> dialogue,
   imagePrompt |-> imagePrompt]

\* The value undefined, read from a hole of a spread array.
Undefined ==
  [kind |-> "undefined", obj |-> 0, id |-> 0, title |-> "",
   description |-> "", dialogue |-> "", imagePrompt |-> <<>>]

\* A hole of a sparse array (an index that was never assigned).
Hole == [Undefined EXCEPT !.kind = "hole"]

SameObject(a, b) == a.kind = b.kind /\ a.id = b.id /\ a.obj = b.obj

NullScript == [isNull |-> TRUE, scenes |-> <<>>]
Script(scenes) == [isNull |-> FALSE, scenes |-> scenes]

\* idea.trim(): drop leading and trailing white space (code 32).
RECURSIVE TrimLeft(_)
TrimLeft(s) ==
  IF s = <<>> THEN s
  ELSE IF Head(s) = 32 THEN TrimLeft(Tail(s)) ELSE s

RECURSIVE TrimRight(_)
TrimRight(s) ==
  IF s = <<>> THEN s
  ELSE IF s[Len(s)] = 32 THEN TrimRight(SubSeq(s, 1, Len(s) - 1)) ELSE s

\* idea used as typed, without trim().
Trim_None(s) == s

Trim(s) == TrimRight(TrimLeft(s))

\* imagePrompt.split('').reduce((acc, char) => acc + char.charCodeAt(0), 0)
RECURSIVE SumCodes(_)
SumCodes(s) == IF s = <<>> THEN 0 ELSE Head(s) + SumCodes(Tail(s))

Seed(imagePrompt, sceneNumber) == SumCodes(imagePrompt) + sceneNumber

\* The three shapes of the imageUrl state: '' before the first effect,
\* `https://picsum.photos/seed/${seed}/800/450`, `data:image/png;base64,...`
EmptyUrl == [kind |-> "empty", seed |-> 0, data |-> <<>>]
PlaceholderUrl(seed) == [kind |-> "placeholder", seed |-> seed, data |-> <<>>]
DataUrl(base64) == [kind |-> "data", seed |-> 0, data |-> base64]

\* imageUrl.startsWith('https://picsum.photos')
IsPlaceholder(url) == url.kind = "placeholder"

\* generateImage: the payload the image model returns for a prompt; it is
\* identified by the prompt it was generated from.
generateImage(prompt) == prompt

\* ---------------------------------------------------------- Scene Store
\* [...currentScript.scenes]: spreading reads holes as undefined.
Spread(arr) ==
  [i \in DOMAIN arr |-> IF arr[i].kind = "hole" THEN Undefined ELSE arr[i]]

\* arr[index] = v on a JavaScript array (0-based index): assigning past the
\* end lengthens the array and leaves holes.
ArraySet(arr, index, v) ==
  [i \in 1..Max2(Len(arr), index + 1) |->
     IF i = index + 1 THEN v
     ELSE IF i <= Len(arr) THEN arr[i] ELSE Hole]

\* arr[index] read on a JavaScript array: undefined out of range.
ArrayGet(arr, index) ==
  IF index >= 0 /\ index < Len(arr) THEN arr[index + 1] ELSE Undefined

\* handleUpdateScene without the test of currentScript: an update made while
\* no script is stored starts a script of its own.
handleUpdateScene_NoNullTest(currentScript, index, updatedScene) ==
  Script(ArraySet(Spread(currentScript.scenes), index, updatedScene))

handleUpdateScene(currentScript, index, updatedScene) ==
  IF currentScript.isNull THEN NullScript
  ELSE Script(ArraySet(Spread(currentScript.scenes), index, updatedScene))

ReorderTarget(index, direction) ==
  IF direction = "up" THEN index - 1 ELSE index + 1

ReorderInBounds(currentScript, index, direction) ==
  /\ ~currentScript.isNull
  /\ ReorderTarget(index, direction) >= 0
  /\ ReorderTarget(index, direction) < Len(currentScript.scenes)

\* handleReorderScene with the upper bound test off by one.
handleReorderScene_OffByOne(currentScript, index, direction) ==
  IF currentScript.isNull THEN NullScript
  ELSE LET scenes == Spread(currentScript.scenes)
           targetIndex == ReorderTarget(index, direction)
       IN IF targetIndex < 0 \/ targetIndex > Len(scenes)
          THEN currentScript
          ELSE Script(
                 ArraySet(ArraySet(scenes, index, ArrayGet(scenes, targetIndex)),
                          targetIndex, ArrayGet(scenes, index)))

handleReorderScene(currentScript, index, direction) ==
  IF currentScript.isNull THEN NullScript
  ELSE LET scenes == Spread(currentScript.scenes)
           targetIndex == ReorderTarget(index, direction)
       IN IF targetIndex < 0 \/ targetIndex >= Len(scenes)
          THEN currentScript
          ELSE Script(
                 ArraySet(ArraySet(scenes, index, ArrayGet(scenes, targetIndex)),
                          targetIndex, ArrayGet(scenes, index)))

\* ------------------------------------------------------------ SceneCard
\* One mounted SceneCard: its props as last rendered (index, sceneNumber,
\* scene) and its five useState cells. inst names the component instance.
MountCard(inst, index, scene) ==
  [inst |-> inst, index |-> index, sceneNumber |-> index + 1, scene |-> scene,
   isEditing |-> FALSE, editedScene |-> scene, imageUrl |-> EmptyUrl,
   isGeneratingImage |-> FALSE, imageError |-> FALSE]

\* An outstanding generateImage call together with the closure that awaits
\* it: triggerImageGeneration's (scene.imagePrompt, sceneNumber) and, for a
\* call made by handleSave, handleSave's (editedScene, onUpdateScene).
\* inst = 0 once the component instance has been unmounted. via is history:
\* what made the call ("button", "signal": the save effect on an increase of
\* saveTrigger, "effect": the save effect otherwise, "retry").
ImageReq(cl, kind, prompt, via) ==
  [inst |-> cl.inst, kind |-> kind, via |-> via, prompt |-> prompt,
   scenePrompt |-> cl.scene.imagePrompt, sceneNumber |-> cl.sceneNumber,
   index |-> cl.index,
   draft |-> IF kind = "save" THEN cl.editedScene ELSE Undefined]

\* useEffect(..., [scene, sceneNumber]): cl is the render the effect closes
\* over, st the state cells the calls are applied to.
sceneEffect(st, cl) ==
  [st EXCEPT !.editedScene = cl.scene,
             !.imageUrl = PlaceholderUrl(Seed(cl.scene.imagePrompt, cl.sceneNumber)),
             !.isGeneratingImage = FALSE,
             !.imageError = FALSE]

\* triggerImageGeneration up to its await.
triggerImageGeneration(st, cl, kind, prompt, via) ==
  [card |-> [st EXCEPT !.isGeneratingImage = TRUE, !.imageError = FALSE],
   req |-> ImageReq(cl, kind, prompt, via)]

\* handleSave requesting an image on every save.
SaveNeedsImage_Always(cl) == TRUE

\* The test of handleSave that decides whether an image is requested.
SaveNeedsImage(cl) ==
  \/ cl.editedScene.imagePrompt # cl.scene.imagePrompt
  \/ IsPlaceholder(cl.imageUrl)

\* What one call of handleSave is recorded as (history only).
SaveEvent(cl, via, reqs) ==
  [inst |-> cl.inst, via |-> via,
   changed |-> cl.editedScene.imagePrompt # cl.scene.imagePrompt,
   placeholder |-> IsPlaceholder(cl.imageUrl),
   draft |-> cl.editedScene, reqs |-> reqs]

\* handleSave up to its first await, or to its end when nothing is awaited.
\* upds are the onUpdateScene calls made: the pairs (index, scene) handed to
\* handleUpdateScene.
handleSave(st, cl, via) ==
  IF SaveNeedsImage(cl)
  THEN LET t == triggerImageGeneration(st, cl, "save", cl.editedScene.imagePrompt, via)
       IN [card |-> t.card, reqs |-> <<t.req>>, upds |-> <<>>,
           saves |-> <<SaveEvent(cl, via, <<t.req>>)>>]
  ELSE [card |-> [st EXCEPT !.isEditing = FALSE], reqs |-> <<>>,
        upds |-> <<[index |-> cl.index, scene |-> cl.editedScene]>>,
        saves |-> <<SaveEvent(cl, via, <<>>)>>]

\* handleSave's dependency list [editedScene, onUpdateScene,
\* scene.imagePrompt, imageUrl, triggerImageGeneration]: the callback is a new
\* function when one of them differs from the previous render p. App passes a
\* new onUpdateScene arrow function on each of its renders (appRendered);
\* triggerImageGeneration depends on [scene.imagePrompt, sceneNumber].
handleSaveChanged(c, p, appRendered) ==
  \/ ~SameObject(c.editedScene, p.editedScene)
  \/ appRendered
  \/ c.scene.imagePrompt # p.scene.imagePrompt
  \/ c.imageUrl # p.imageUrl
  \/ c.sceneNumber # p.sceneNumber

\* The two useEffect callbacks of one card after a render, in source order.
\* c is the card as rendered, p the same instance at the previous render.
CardEffects(c, p, isFresh, appRendered, trigChanged, trig) ==
  LET sceneDep == isFresh \/ ~SameObject(c.scene, p.scene)
                          \/ c.sceneNumber # p.sceneNumber
      saveDep == isFresh \/ trigChanged \/ c.isEditing # p.isEditing
                         \/ handleSaveChanged(c, p, appRendered)
      c1 == IF sceneDep THEN sceneEffect(c, c) ELSE c
  IN IF saveDep /\ trig > 0 /\ c.isEditing
     THEN handleSave(c1, c, IF trigChanged THEN "signal" ELSE "effect")
     ELSE [card |-> c1, reqs |-> <<>>, upds |-> <<>>, saves |-> <<>>]

\* ------------------------------------------------- rendering the card list
\* movieScript.scenes.map((scene, index) => <SceneCard key={scene.id} .../>)
\* reconciled against the mounted cards: React keeps the cards whose key and
\* position match from the front, then looks the remaining ones up by key
\* (of two old cards with one key the later one is found, and a key is found
\* once); every other child is mounted anew.
RECURSIVE PrefixLen(_, _, _)
PrefixLen(old, scenes, k) ==
  IF /\ k < Len(old) /\ k < Len(scenes)
     /\ old[k + 1].index = k
     /\ scenes[k + 1].kind = "scene"
     /\ scenes[k + 1].id = old[k + 1].scene.id
  THEN PrefixLen(old, scenes, k + 1)
  ELSE k

\* The old card reused at position i (1-based) of scenes, 0 when none.
ReusedAt(old, scenes, i) ==
  LET P == PrefixLen(old, scenes, 0)
      cands == {j \in (P + 1)..Len(old) : old[j].scene.id = scenes[i].id}
      firstOfKey == ~\E j \in (P + 1)..(i - 1) :
                       scenes[j].kind = "scene" /\ scenes[j].id = scenes[i].id
  IN IF i <= P THEN i
     ELSE IF firstOfKey /\ cands # {}
          THEN CHOOSE j \in cands : \A m \in cands : m <= j
          ELSE 0

\* The n-th smallest instance name not in used.
NthFree(used, n) ==
  CHOOSE t \in 1..(Cardinality(used) + n) :
    t \notin used /\ Cardinality({u \in 1..t : u \notin used}) = n

Reconcile(old, scenes) ==
  LET pos == {i \in DOMAIN scenes : scenes[i].kind = "scene"}
      reusedInsts == {old[ReusedAt(old, scenes, i)].inst :
                        i \in {j \in pos : ReusedAt(old, scenes, j) # 0}}
      freshPos == {i \in pos : ReusedAt(old, scenes, i) = 0}
      rank(i) == Cardinality({j \in freshPos : j <= i})
      cardAt(i) ==
        IF ReusedAt(old, scenes, i) # 0
        THEN [old[ReusedAt(old, scenes, i)] EXCEPT
                !.index = i - 1, !.sceneNumber = i, !.scene = scenes[i]]
        ELSE MountCard(NthFree(reusedInsts, rank(i)), i - 1, scenes[i])
      nth(k) == CHOOSE i \in pos : Cardinality({j \in pos : j <= i}) = k
  IN [cards |-> [k \in 1..Cardinality(pos) |-> cardAt(nth(k))],
      fresh |-> {NthFree(reusedInsts, rank(i)) : i \in freshPos},
      kept |-> reusedInsts]

\* scenes.map calls its function on undefined entries (not on holes), and
\* reading scene.id of undefined throws during render.
RenderThrows(script) ==
  ~script.isNull /\ \E i \in DOMAIN script.scenes : script.scenes[i].kind = "undefined"

\* Requests whose component instance is no longer mounted.
Orphan(reqs, kept) ==
  [i \in DOMAIN reqs |->
     IF reqs[i].inst \in kept THEN reqs[i] ELSE [reqs[i] EXCEPT !.inst = 0]]

\* ------------------------------------------------ render and effect loop
\* The values a task works on: the Scene Store, the mounted cards, the
\* outstanding image requests, whether a render has thrown, and the history
\* of the handleUpdateScene and handleSave calls the task has made.
World(script, cs, reqs, dead, upds, svs) ==
  [script |-> script, cards |-> cs, reqs |-> reqs, crashed |-> dead,
   updates |-> upds, saves |-> svs]

\* One handleUpdateScene call as recorded (history only).
UpdateEvent(script, index, scene) ==
  [index |-> index, applied |-> ~script.isNull,
   idBefore |-> ArrayGet(script.scenes, index).id, idAfter |-> scene.id,
   scene |-> scene,
   othersKept |->
     LET after == handleUpdateScene(script, index, scene).scenes
     IN /\ Len(after) = Len(script.scenes)
        /\ \A i \in DOMAIN after : i # index + 1 => after[i] = script.scenes[i]]

\* The queued setMovieScript updaters of handleUpdateScene, applied in order.
RECURSIVE ApplyUpdates(_, _)
ApplyUpdates(script, upds) ==
  IF upds = <<>> THEN [script |-> script, events |-> <<>>]
  ELSE Only({[script |-> rest.script,
              events |-> <<UpdateEvent(script, Head(upds).index, Head(upds).scene)>>
                           \o rest.events] :
             rest \in {Only({ApplyUpdates(next, Tail(upds)) :
                              next \in {handleUpdateScene(script, Head(upds).index,
                                                           Head(upds).scene)}})}})

\* setMovieScript called after a render has thrown: App is unmounted and React
\* drops the update.
Unmounted(script, upds) ==
  [script |-> script,
   events |-> [i \in DOMAIN upds |->
                 [UpdateEvent(script, upds[i].index, upds[i].scene)
                    EXCEPT !.applied = FALSE]]]

\* App's render of the card list: none without a script, a thrown error
\* unmounts the whole tree.
RenderCards(w, appRendered) ==
  IF ~appRendered THEN [cards |-> w.cards, fresh |-> {}, kept |-> {c.inst : c \in Range(w.cards)}, crashed |-> FALSE]
  ELSE IF w.script.isNull THEN [cards |-> <<>>, fresh |-> {}, kept |-> {}, crashed |-> FALSE]
  ELSE IF RenderThrows(w.script) THEN [cards |-> <<>>, fresh |-> {}, kept |-> {}, crashed |-> TRUE]
  ELSE LET r == Reconcile(w.cards, w.script.scenes)
       IN [cards |-> r.cards, fresh |-> r.fresh, kept |-> r.kept, crashed |-> FALSE]

PrevOf(prev, c) ==
  IF \E i \in DOMAIN prev : prev[i].inst = c.inst
  THEN prev[CHOOSE i \in DOMAIN prev : prev[i].inst = c.inst]
  ELSE c

\* The effects of all cards after one render, in card order.
RECURSIVE RunEffects(_, _, _, _, _, _, _)
RunEffects(rendered, prev, fresh, appRendered, trigChanged, trig, k) ==
  IF k > Len(rendered)
  THEN [cards |-> <<>>, reqs |-> <<>>, upds |-> <<>>, saves |-> <<>>]
  ELSE Only({[cards |-> <<e.card>> \o rest.cards, reqs |-> e.reqs \o rest.reqs,
              upds |-> e.upds \o rest.upds, saves |-> e.saves \o rest.saves] :
             e \in {CardEffects(rendered[k], PrevOf(prev, rendered[k]),
                                rendered[k].inst \in fresh,
                                appRendered, trigChanged, trig)},
             rest \in {RunEffects(rendered, prev, fresh, appRendered, trigChanged,
                                  trig, k + 1)}})

\* One render followed by its effects. prev holds the cards as they were
\* rendered last, w the state the render reads.
AfterEffects(w, r, e) ==
  Only({[w |-> World(a.script, e.cards, Orphan(w.reqs, r.kept) \o e.reqs,
                     r.crashed, w.updates \o a.events, w.saves \o e.saves),
         rendered |-> r.cards,
         dirty |-> e.upds # <<>>] :
        a \in {ApplyUpdates(w.script, e.upds)}})

AfterRender(prev, w, r, appRendered, trigChanged, trig) ==
  Only({AfterEffects(w, r, e) :
        e \in {RunEffects(r.cards, prev, r.fresh, appRendered, trigChanged, trig, 1)}})

RenderPass(prev, w, appRendered, trigChanged, trig) ==
  Only({AfterRender(prev, w, r, appRendered, trigChanged, trig) :
        r \in {RenderCards(w, appRendered)}})

\* Render passes until a render finds nothing changed.
RECURSIVE Settle(_, _, _, _, _)
Settle(prev, w, appRendered, trigChanged, trig) ==
  IF w.crashed \/ (~appRendered /\ ~trigChanged /\ w.cards = prev) THEN w
  ELSE Only({Settle(r.rendered, r.w, r.dirty, FALSE, trig) :
             r \in {RenderPass(prev, w, appRendered, trigChanged, trig)}})

\* ------------------------------------------------------------- the state
VARIABLES
  idea,         \* App: useState('')
  movieScript,  \* App: useState<MovieScript | null>(null), the Scene Store
  isLoading,    \* App: useState(false)
  error,        \* App: useState<string | null>(null); "none" is null
  saveTrigger,  \* App: useState(0), the save signal
  cards,        \* the mounted SceneCards, in render order
  imageReqs,    \* outstanding generateImage calls and their continuations
  scriptReq,    \* TRUE while a generateMovieScript call is outstanding
  crashed,      \* a render has thrown and React has unmounted the tree
  steps,        \* tasks run so far
  genScenes,    \* history: the scenes stored by the last successful generation
  act,          \* history: the task that produced this state
  updates,      \* history: the handleUpdateScene calls of that task
  saves,        \* history: the handleSave calls of that task
  storeOp,      \* history: the store operation of the store-only specification
  clientCall    \* one generateMovieScript call of the client-only specification

vars == <<idea, movieScript, isLoading, error, saveTrigger, cards, imageReqs,
          scriptReq, crashed, steps, genScenes, act, updates, saves, storeOp,
          clientCall>>

ErrEmptyIdea == "Please enter a movie idea."
ErrGenerate == "Failed to generate script. Please check your API key and try again."

NoReq == [inst |-> 0, kind |-> "none", via |-> "none", prompt |-> <<>>,
          scenePrompt |-> <<>>, sceneNumber |-> 0, index |-> 0, draft |-> Undefined]

\* The task that produced a state: its name, the card instance it was made
\* on (0: none), and for an image response the request and its outcome.
Act(name, inst, req, ok) == [name |-> name, inst |-> inst, req |-> req, ok |-> ok]

NoStoreOp == [index |-> 0, direction |-> "none", before |-> NullScript]

\* No generateMovieScript call under study.
NoClientCall ==
  [idea |-> <<>>, upstream |-> [kind |-> "none"], done |-> FALSE,
   result |-> [kind |-> "none"]]

Init ==
  /\ idea = <<>>
  /\ movieScript = NullScript
  /\ isLoading = FALSE
  /\ error = "none"
  /\ saveTrigger = 0
  /\ cards = <<>>
  /\ imageReqs = <<>>
  /\ scriptReq = FALSE
  /\ crashed = FALSE
  /\ steps = 0
  /\ genScenes = <<>>
  /\ act = Act("init", 0, NoReq, FALSE)
  /\ updates = <<>>
  /\ saves = <<>>
  /\ storeOp = NoStoreOp
  /\ clientCall = NoClientCall

\* Object identities and uuids are unique: a new one is a number that no
\* object the program still holds carries.
Live ==
  Range(movieScript.scenes) \cup Range(genScenes)
    \cup {c.scene : c \in Range(cards)}
    \cup {c.editedScene : c \in Range(cards)}
    \cup {r.draft : r \in Range(imageReqs)}

UsedIds == {o.id : o \in Live}
UsedCopies(id) == {o.obj : o \in {x \in Live : x.id = id}}

\* The state a task starts from, and the end of a task: the handler has left
\* w, App has (or has not) re-rendered, and the renders and effects run.
Start == World(movieScript, cards, imageReqs, crashed, <<>>, <<>>)

Finish(w, appRendered, trigChanged, trig) ==
  /\ steps < MaxSteps
  /\ \E f \in {Settle(cards, w0, appRendered, trigChanged, trig) : w0 \in {w}} :
       /\ steps' = steps + 1
       /\ Len(f.reqs) <= MaxReqs
       /\ movieScript' = f.script
       /\ cards' = f.cards
       /\ imageReqs' = f.reqs
       /\ crashed' = f.crashed
       /\ updates' = f.updates
       /\ saves' = f.saves

SetCard(w, k, c) == [w EXCEPT !.cards[k] = c]

\* ------------------------------------------------------------ App actions
\* onChange of the idea textarea: setIdea(e.target.value)
SetIdea(v) ==
  /\ ~crashed
  /\ v # idea
  /\ idea' = v
  /\ Finish(Start, TRUE, FALSE, saveTrigger)
  /\ act' = Act("SetIdea", 0, NoReq, FALSE)
  /\ UNCHANGED <<isLoading, error, saveTrigger, scriptReq, genScenes, storeOp, clientCall>>

\* handleGenerateScript with an idea that is empty after trimming.
GenerateEmpty ==
  /\ ~crashed /\ ~isLoading
  /\ Trim(idea) = <<>>
  /\ error' = ErrEmptyIdea
  /\ Finish(Start, error # ErrEmptyIdea, FALSE, saveTrigger)
  /\ act' = Act("GenerateEmpty", 0, NoReq, FALSE)
  /\ UNCHANGED <<idea, isLoading, saveTrigger, scriptReq, genScenes, storeOp, clientCall>>

\* handleGenerateScript up to its await, without setMovieScript(null).
GenerateStart_KeepScript ==
  /\ ~crashed /\ ~isLoading
  /\ Trim(idea) # <<>>
  /\ isLoading' = TRUE
  /\ error' = "none"
  /\ scriptReq' = TRUE
  /\ Finish(Start, TRUE, FALSE, saveTrigger)
  /\ act' = Act("GenerateStart", 0, NoReq, FALSE)
  /\ UNCHANGED <<idea, saveTrigger, genScenes, storeOp, clientCall>>

\* handleGenerateScript up to its await.
GenerateStart ==
  /\ ~crashed /\ ~isLoading
  /\ Trim(idea) # <<>>
  /\ isLoading' = TRUE
  /\ error' = "none"
  /\ scriptReq' = TRUE
  /\ Finish([Start EXCEPT !.script = NullScript], TRUE, FALSE, saveTrigger)
  /\ act' = Act("GenerateStart", 0, NoReq, FALSE)
  /\ UNCHANGED <<idea, saveTrigger, genScenes, storeOp, clientCall>>

\* script.scenes.map(scene => ({...scene, id: self.crypto.randomUUID()}))
scenesWithIds(prompts) ==
  [i \in DOMAIN prompts |->
     Scene(0, NthFree(UsedIds, i), "t", "d", "g", prompts[i])]

\* generateMovieScript resolved: the continuation of handleGenerateScript.
GenerateSuccess(prompts) ==
  /\ scriptReq
  /\ scriptReq' = FALSE
  /\ IF crashed
     THEN /\ UNCHANGED <<isLoading, genScenes>>
          /\ Finish(Start, FALSE, FALSE, saveTrigger)
     ELSE /\ isLoading' = FALSE
          /\ genScenes' = scenesWithIds(prompts)
          /\ Finish([Start EXCEPT !.script = Script(scenesWithIds(prompts))],
                    TRUE, FALSE, saveTrigger)
  /\ act' = Act("GenerateSuccess", 0, NoReq, TRUE)
  /\ UNCHANGED <<idea, error, saveTrigger, storeOp, clientCall>>

\* generateMovieScript rejected: catch and finally of handleGenerateScript.
GenerateFailure ==
  /\ scriptReq
  /\ scriptReq' = FALSE
  /\ IF crashed
     THEN /\ UNCHANGED <<isLoading, error>>
          /\ Finish(Start, FALSE, FALSE, saveTrigger)
     ELSE /\ isLoading' = FALSE
          /\ error' = ErrGenerate
          /\ Finish(Start, TRUE, FALSE, saveTrigger)
  /\ act' = Act("GenerateFailure", 0, NoReq, FALSE)
  /\ UNCHANGED <<idea, saveTrigger, genScenes, storeOp, clientCall>>

\* handleSaveAll: the button is rendered while a script is stored.
SaveAll ==
  /\ ~crashed /\ ~movieScript.isNull
  /\ saveTrigger < MaxTrigger
  /\ saveTrigger' = saveTrigger + 1
  /\ Finish(Start, TRUE, TRUE, saveTrigger + 1)
  /\ act' = Act("SaveAll", 0, NoReq, FALSE)
  /\ UNCHANGED <<idea, isLoading, error, scriptReq, genScenes, storeOp, clientCall>>

\* ------------------------------------------------------ SceneCard actions
CardFrame == UNCHANGED <<idea, isLoading, error, saveTrigger, scriptReq, genScenes, storeOp, clientCall>>

\* "Edit Scene": setIsEditing(true)
Edit(k) ==
  /\ k \in DOMAIN cards /\ ~cards[k].isEditing
  /\ Finish(SetCard(Start, k, [cards[k] EXCEPT !.isEditing = TRUE]),
            FALSE, FALSE, saveTrigger)
  /\ act' = Act("Edit", cards[k].inst, NoReq, FALSE)
  /\ CardFrame

\* handleInputChange: setEditedScene(prev => ({...prev, [name]: value}))
handleInputChange(prev, name, value, obj) ==
  IF name = "title" THEN [prev EXCEPT !.obj = obj, !.title = value]
  ELSE IF name = "description" THEN [prev EXCEPT !.obj = obj, !.description = value]
  ELSE IF name = "dialogue" THEN [prev EXCEPT !.obj = obj, !.dialogue = value]
  ELSE [prev EXCEPT !.obj = obj, !.imagePrompt = value]

FieldOf(scene, name) ==
  IF name = "title" THEN scene.title
  ELSE IF name = "description" THEN scene.description
  ELSE IF name = "dialogue" THEN scene.dialogue
  ELSE <<scene.imagePrompt>>

TypeDraft(k, name, value) ==
  /\ k \in DOMAIN cards /\ cards[k].isEditing
  /\ FieldOf(cards[k].editedScene, name) # (IF name = "imagePrompt" THEN <<value>> ELSE value)
  /\ Finish(SetCard(Start, k,
              [cards[k] EXCEPT !.editedScene = handleInputChange(@, name, value, NthFree(UsedCopies(@.id), 1))]),
            FALSE, FALSE, saveTrigger)
  /\ act' = Act("TypeDraft", cards[k].inst, NoReq, FALSE)
  /\ CardFrame

\* The Save button (disabled while isGeneratingImage): handleSave.
Save(k) ==
  /\ k \in DOMAIN cards /\ cards[k].isEditing /\ ~cards[k].isGeneratingImage
  /\ LET h == handleSave(cards[k], cards[k], "button")
         a == ApplyUpdates(movieScript, h.upds)
     IN Finish(World(a.script, [cards EXCEPT ![k] = h.card], imageReqs \o h.reqs,
                     FALSE, a.events, h.saves),
               h.upds # <<>>, FALSE, saveTrigger)
  /\ act' = Act("Save", cards[k].inst, NoReq, FALSE)
  /\ CardFrame

\* handleCancel leaving Editing without resetting the draft.
handleCancel_KeepDraft(c) == [c EXCEPT !.isEditing = FALSE]

\* The Cancel button (disabled while isGeneratingImage): handleCancel.
handleCancel(c) == [c EXCEPT !.editedScene = c.scene, !.isEditing = FALSE]

Cancel(k) ==
  /\ k \in DOMAIN cards /\ cards[k].isEditing /\ ~cards[k].isGeneratingImage
  /\ Finish(SetCard(Start, k, handleCancel(cards[k])), FALSE, FALSE, saveTrigger)
  /\ act' = Act("Cancel", cards[k].inst, NoReq, FALSE)
  /\ CardFrame

\* The Retry button (rendered when imageError && !isGeneratingImage).
handleRetryGeneration(c) ==
  triggerImageGeneration(c, c, "retry", c.scene.imagePrompt, "retry")

Retry(k) ==
  /\ k \in DOMAIN cards /\ cards[k].imageError /\ ~cards[k].isGeneratingImage
  /\ LET t == handleRetryGeneration(cards[k])
     IN Finish(World(movieScript, [cards EXCEPT ![k] = t.card], imageReqs \o <<t.req>>,
                     FALSE, <<>>, <<>>),
               FALSE, FALSE, saveTrigger)
  /\ act' = Act("Retry", cards[k].inst, NoReq, FALSE)
  /\ CardFrame

\* The move buttons (rendered when !isEditing, disabled on isFirst / isLast).
isFirst(c) == c.index = 0
isLast(c) == c.index = Len(movieScript.scenes) - 1

Reorder(k, direction) ==
  /\ k \in DOMAIN cards /\ ~cards[k].isEditing
  /\ IF direction = "up" THEN ~isFirst(cards[k]) ELSE ~isLast(cards[k])
  /\ Finish([Start EXCEPT !.script = handleReorderScene(movieScript, cards[k].index, direction)],
            ReorderInBounds(movieScript, cards[k].index, direction), FALSE, saveTrigger)
  /\ act' = Act("Reorder", cards[k].inst, NoReq, FALSE)
  /\ CardFrame

\* generateImage settled: the rest of triggerImageGeneration and, for a
\* request made by handleSave, the rest of handleSave. State setters of an
\* unmounted instance do nothing; onUpdateScene still reaches App.
ImageSettled(c, r, ok) ==
  LET c1 == IF ok
            THEN [c EXCEPT !.imageUrl = DataUrl(generateImage(r.prompt))]
            ELSE [c EXCEPT !.imageError = TRUE,
                           !.imageUrl = PlaceholderUrl(Seed(r.scenePrompt, r.sceneNumber))]
      c2 == [c1 EXCEPT !.isGeneratingImage = FALSE]
  IN IF r.kind = "save" THEN [c2 EXCEPT !.isEditing = FALSE] ELSE c2

\* handleSave committing only when the image was generated.
SettledUpdates_OnlyOnSuccess(r, ok) ==
  IF r.kind = "save" /\ ok THEN <<[index |-> r.index, scene |-> r.draft]>> ELSE <<>>

\* The onUpdateScene calls the continuation of request r makes.
SettledUpdates(r, ok) ==
  IF r.kind = "save" THEN <<[index |-> r.index, scene |-> r.draft]>> ELSE <<>>

Without(s, k) == [i \in 1..(Len(s) - 1) |-> IF i < k THEN s[i] ELSE s[i + 1]]

ImageResponse(k, ok) ==
  /\ k \in DOMAIN imageReqs
  /\ LET r == imageReqs[k]
         cs == [i \in DOMAIN cards |->
                  IF cards[i].inst = r.inst THEN ImageSettled(cards[i], r, ok) ELSE cards[i]]
         u == SettledUpdates(r, ok)
         a == IF crashed THEN Unmounted(movieScript, u) ELSE ApplyUpdates(movieScript, u)
     IN /\ Finish(World(a.script, cs, Without(imageReqs, k), crashed, a.events, <<>>),
                  u # <<>> /\ ~movieScript.isNull /\ ~crashed, FALSE, saveTrigger)
        /\ act' = Act("ImageResponse", r.inst, r, ok)
  /\ CardFrame

Next ==
  \/ \E v \in Ideas : SetIdea(v)
  \/ GenerateEmpty
  \/ GenerateStart
  \/ \E n \in 0..MaxScenes : \E prompts \in [1..n -> GenPrompts] : GenerateSuccess(prompts)
  \/ GenerateFailure
  \/ \E k \in 1..MaxScenes : Edit(k)
  \/ \E k \in 1..MaxScenes : \E value \in TypedPrompts : TypeDraft(k, "imagePrompt", value)
  \/ \E k \in 1..MaxScenes : \E value \in TypedTitles : TypeDraft(k, "title", value)
  \/ \E k \in 1..MaxScenes : Save(k)
  \/ \E k \in 1..MaxScenes : Cancel(k)
  \/ \E k \in 1..MaxScenes : Retry(k)
  \/ \E k \in 1..MaxScenes : \E direction \in {"up", "down"} : Reorder(k, direction)
  \/ \E k \in 1..MaxReqs : \E ok \in BOOLEAN : ImageResponse(k, ok)
  \/ SaveAll

Spec == Init /\ [][Next]_vars

\* ------------------------------------------- the Scene Store on its own
\* handleReorderScene applied to every store of up to MaxStoreLen scenes, at
\* every index of the store and in both directions.
StorePrompts == {<<1>>, <<2>>}

StoreScripts ==
  UNION {{Script([i \in 1..n |-> Scene(0, i, "t", "d", "g", prompts[i])]) :
            prompts \in [1..n -> StorePrompts]} : n \in 1..MaxStoreLen}

InitStore ==
  /\ idea = <<>>
  /\ movieScript \in StoreScripts
  /\ isLoading = FALSE
  /\ error = "none"
  /\ saveTrigger = 0
  /\ cards = <<>>
  /\ imageReqs = <<>>
  /\ scriptReq = FALSE
  /\ crashed = FALSE
  /\ steps = 0
  /\ genScenes = movieScript.scenes
  /\ act = Act("init", 0, NoReq, FALSE)
  /\ updates = <<>>
  /\ saves = <<>>
  /\ storeOp = NoStoreOp
  /\ clientCall = NoClientCall

StoreReorder(index, direction) ==
  /\ index < Len(movieScript.scenes)
  /\ movieScript' = handleReorderScene(movieScript, index, direction)
  /\ storeOp' = [index |-> index, direction |-> direction, before |-> movieScript]
  /\ UNCHANGED <<idea, isLoading, error, saveTrigger, cards, imageReqs, scriptReq,
                 crashed, steps, genScenes, act, updates, saves, clientCall>>

NextStore ==
  \E index \in 0..(MaxStoreLen - 1) : \E direction \in {"up", "down"} :
    StoreReorder(index, direction)

SpecStore == InitStore /\ [][NextStore]_vars

\* ------------------------------------------ the Script Client on its own
\* generateMovieScript applied to every idea of ClientIdeas and every outcome
\* of the upstream call: a rejection, or a response whose text is empty, is
\* not JSON, or is the JSON text of a value.
ClientIdeas == {<<>>, <<32>>, <<97>>, <<32, 97>>}    \* "", " ", "a" and " a"

\* The scene objects a response may carry: complete, with an empty title,
\* with an empty imagePrompt.
JsonScenes ==
  {[title |-> "t", description |-> "d", dialogue |-> "g", imagePrompt |-> <<1>>],
   [title |-> "", description |-> "d", dialogue |-> "g", imagePrompt |-> <<1>>],
   [title |-> "t", description |-> "d", dialogue |-> "g", imagePrompt |-> <<>>]}

JsonNull == [type |-> "null", hasScenes |-> FALSE, scenes |-> <<>>]
JsonObject(hasScenes, scenes) ==
  [type |-> "object", hasScenes |-> hasScenes, scenes |-> scenes]

JsonValues ==
  {JsonNull, JsonObject(FALSE, <<>>)}
    \cup UNION {{JsonObject(TRUE, scenes) : scenes \in [1..n -> JsonScenes]} :
                n \in 0..MaxClientScenes}

\* response.text: '' (or undefined), a text that is not JSON, a JSON text.
ResponseTexts ==
  {[kind |-> "empty", value |-> JsonNull], [kind |-> "garbage", value |-> JsonNull]}
    \cup {[kind |-> "json", value |-> v] : v \in JsonValues}

Upstreams ==
  {[rejected |-> TRUE, text |-> [kind |-> "empty", value |-> JsonNull]]}
    \cup {[rejected |-> FALSE, text |-> t] : t \in ResponseTexts}

\* JSON.parse: throws on a text that is not JSON, else the value of the text.
JsonParse(text) ==
  IF text.kind = "json" THEN [threw |-> FALSE, value |-> text.value]
  ELSE [threw |-> TRUE, value |-> JsonNull]

ClientFailed == [kind |-> "error", value |-> JsonNull]
ClientReturned(value) == [kind |-> "script", value |-> value]

\* generateMovieScript: the idea goes into the prompt text only; the parsed
\* value is returned as it is.
generateMovieScript(ideaText, upstream) ==
  IF upstream.rejected THEN ClientFailed
  ELSE IF upstream.text.kind = "empty" THEN ClientFailed
  ELSE IF JsonParse(upstream.text).threw THEN ClientFailed
  ELSE ClientReturned(JsonParse(upstream.text).value)

InitClient ==
  /\ idea = <<>>
  /\ movieScript = NullScript
  /\ isLoading = FALSE
  /\ error = "none"
  /\ saveTrigger = 0
  /\ cards = <<>>
  /\ imageReqs = <<>>
  /\ scriptReq = FALSE
  /\ crashed = FALSE
  /\ steps = 0
  /\ genScenes = <<>>
  /\ act = Act("init", 0, NoReq, FALSE)
  /\ updates = <<>>
  /\ saves = <<>>
  /\ storeOp = NoStoreOp
  /\ clientCall \in {[idea |-> i, upstream |-> u, done |-> FALSE,
                       result |-> [kind |-> "none", value |-> JsonNull]] :
                      i \in ClientIdeas, u \in Upstreams}

CallClient ==
  /\ ~clientCall.done
  /\ clientCall' = [clientCall EXCEPT
                      !.done = TRUE,
                      !.result = generateMovieScript(clientCall.idea, clientCall.upstream)]
  /\ UNCHANGED <<idea, movieScript, isLoading, error, saveTrigger, cards, imageReqs,
                 scriptReq, crashed, steps, genScenes, act, updates, saves, storeOp>>

NextClient == CallClient

SpecClient == InitClient /\ [][NextClient]_vars

\* ================================================================ claims
IdsOf(scenes) == {scenes[i].id : i \in DOMAIN scenes}

SameFields(a, b) ==
  /\ a.title = b.title /\ a.description = b.description
  /\ a.dialogue = b.dialogue /\ a.imagePrompt = b.imagePrompt

\* The outstanding requests of a card instance.
Requests(reqs, inst) == {i \in DOMAIN reqs : reqs[i].inst = inst}

CardOf(cs, inst) == cs[CHOOSE k \in DOMAIN cs : cs[k].inst = inst]

\* C1: every update applied to the Scene Store changes only the entry at its
\* index, and the identifier stored at that index is the same before and
\* after it (a card's commit lands on the entry of the card's own scene).
C1_UpdateOwnEntry ==
  \A k \in DOMAIN updates :
    updates[k].applied =>
      /\ updates[k].othersKept
      /\ updates[k].idBefore = updates[k].idAfter

\* C2: while a Script is stored, the scene sequence has the length and the
\* set of identifiers it had when the Script was stored, every entry is a
\* scene, and the identifiers are pairwise distinct.
C2_ScenesFixed ==
  ~movieScript.isNull =>
    /\ Len(movieScript.scenes) = Len(genScenes)
    /\ \A i \in DOMAIN movieScript.scenes : movieScript.scenes[i].kind = "scene"
    /\ IdsOf(movieScript.scenes) = IdsOf(genScenes)
    /\ \A i, j \in DOMAIN movieScript.scenes :
         i # j => movieScript.scenes[i].id # movieScript.scenes[j].id

\* C3: reorder(0, up) and reorder(last, down) leave the scene sequence as it
\* is; for every other valid index the entries at the index and at its target
\* are exchanged and every other position holds the scene it held.
C3_ReorderSwapsAdjacent ==
  storeOp.direction # "none" =>
    LET b == storeOp.before.scenes
        a == movieScript.scenes
        i == storeOp.index + 1
        t == IF storeOp.direction = "up" THEN i - 1 ELSE i + 1
    IN IF (storeOp.direction = "up" /\ i = 1) \/ (storeOp.direction = "down" /\ i = Len(b))
       THEN a = b
       ELSE /\ Len(a) = Len(b)
            /\ a[i] = b[t] /\ a[t] = b[i]
            /\ \A j \in DOMAIN b : (j # i /\ j # t) => a[j] = b[j]

\* C3 witness: reorder(1, up) has turned [S0, S1, S2] into [S1, S0, S2].
C3_Witness ==
  /\ storeOp.direction = "up" /\ storeOp.index = 1
  /\ Len(storeOp.before.scenes) = 3
  /\ storeOp.before.scenes[1] # storeOp.before.scenes[2]
  /\ movieScript.scenes = <<storeOp.before.scenes[2], storeOp.before.scenes[1],
                            storeOp.before.scenes[3]>>

\* C4: a generated Script replaces the previous one outright: while a
\* generation is loading nothing is stored, every stored scene is a scene of
\* the last successful generation, and right after a successful generation
\* the store holds exactly the scenes it returned, in order.
C4_ReplacedOutright ==
  /\ isLoading => movieScript.isNull
  /\ \A i \in DOMAIN movieScript.scenes :
       movieScript.scenes[i].kind = "scene" =>
         movieScript.scenes[i].id \in IdsOf(genScenes)
  /\ act.name = "GenerateSuccess" /\ ~crashed => movieScript.scenes = genScenes

\* C5: when the image request of a save with a changed imagePrompt succeeds,
\* the card is back in Viewing and displays the generated image, and every
\* other card displays what it displayed before.
C5_SavedImageShown ==
  [][(/\ act'.name = "ImageResponse" /\ act'.ok /\ act'.inst # 0
      /\ act'.req.kind = "save"
      /\ act'.req.prompt # act'.req.scenePrompt)
     => /\ \A k \in DOMAIN cards' :
             cards'[k].inst = act'.inst =>
               /\ ~cards'[k].isEditing
               /\ cards'[k].imageUrl = DataUrl(generateImage(act'.req.prompt))
        /\ \A k \in DOMAIN cards : \A j \in DOMAIN cards' :
             (cards[k].inst = cards'[j].inst /\ cards[k].inst # act'.inst)
               => cards'[j].imageUrl = cards[k].imageUrl]_vars

\* C6: handleSave runs on a draft with a changed imagePrompt only in a save
\* (the card's Save button or an increase of the save signal), once for the
\* card, and issues exactly one image request, with the draft's imagePrompt.
C6_OneRequestPerSave ==
  \A k \in DOMAIN saves :
    saves[k].changed =>
      /\ act.name \in {"Save", "SaveAll"}
      /\ act.name = "Save" => saves[k].inst = act.inst
      /\ \A j \in DOMAIN saves : j # k => saves[j].inst # saves[k].inst
      /\ Len(saves[k].reqs) = 1
      /\ saves[k].reqs[1].prompt = saves[k].draft.imagePrompt

\* C7: a save with an unchanged imagePrompt on a card that displays a
\* generated image issues no image request.
C7_NoRequestWhenUnchanged ==
  [][\A k \in DOMAIN saves' :
       (~saves'[k].changed /\ ~saves'[k].placeholder) =>
         /\ saves'[k].reqs = <<>>
         /\ Cardinality(Requests(imageReqs', saves'[k].inst))
              <= Cardinality(Requests(imageReqs, saves'[k].inst))]_vars

\* C7 witness: the Save button was pressed on a card with an unchanged
\* imagePrompt and a generated image.
C7_Witness ==
  /\ act.name = "Save"
  /\ \E k \in DOMAIN saves :
       /\ saves[k].inst = act.inst /\ saves[k].via = "button"
       /\ ~saves[k].changed /\ ~saves[k].placeholder

\* The card of instance inst is in Viewing and the store entries with the
\* draft's identifier hold the draft's field values.
Committed(cs, scenes, inst, draft) ==
  /\ \A k \in DOMAIN cs : cs[k].inst = inst => ~cs[k].isEditing
  /\ \E i \in DOMAIN scenes : scenes[i].id = draft.id
  /\ \A i \in DOMAIN scenes : scenes[i].id = draft.id => SameFields(scenes[i], draft)

\* C8: when the save signal increases, every card in Editing saves its draft:
\* a card that needs no image has committed at once, and a card whose image
\* request completes (while the card is mounted) has then committed; its
\* store entry holds the draft as it was when the signal increased.
C8_SignalCommits ==
  [][/\ act'.name = "SaveAll" =>
          \A k \in DOMAIN cards :
            cards[k].isEditing =>
              \E j \in DOMAIN saves' :
                /\ saves'[j].inst = cards[k].inst
                /\ saves'[j].draft = cards[k].editedScene
                /\ saves'[j].reqs = <<>> =>
                     Committed(cards', movieScript'.scenes, cards[k].inst,
                               cards[k].editedScene)
     /\ (/\ act'.name = "ImageResponse" /\ act'.inst # 0
         /\ act'.req.kind = "save" /\ act'.req.via = "signal")
        => Committed(cards', movieScript'.scenes, act'.inst, act'.req.draft)]_vars

\* C9: a failed image request leaves the card with its placeholder and the
\* inline error (the retry control); the error stays until a request of the
\* card starts; Retry requests the committed imagePrompt, and when that
\* request succeeds the card shows the generated image without error.
C9_FailureShownUntilRetry ==
  [][/\ (act'.name = "ImageResponse" /\ ~act'.ok /\ act'.inst # 0)
        => \A k \in DOMAIN cards' :
             cards'[k].inst = act'.inst =>
               /\ cards'[k].imageError
               /\ IsPlaceholder(cards'[k].imageUrl)
     /\ \A k \in DOMAIN cards : \A j \in DOMAIN cards' :
          (/\ cards[k].inst = cards'[j].inst
           /\ cards[k].imageError
           /\ act'.name # "GenerateSuccess"
           /\ Cardinality(Requests(imageReqs', cards[k].inst))
                <= Cardinality(Requests(imageReqs, cards[k].inst)))
          => cards'[j].imageError
     /\ act'.name = "Retry" =>
          \E i \in DOMAIN imageReqs' :
            /\ imageReqs'[i].inst = act'.inst /\ imageReqs'[i].kind = "retry"
            /\ imageReqs'[i].prompt = CardOf(cards, act'.inst).scene.imagePrompt
     /\ (/\ act'.name = "ImageResponse" /\ act'.ok /\ act'.inst # 0
         /\ act'.req.kind = "retry")
        => \A k \in DOMAIN cards' :
             cards'[k].inst = act'.inst =>
               /\ ~cards'[k].imageError
               /\ cards'[k].imageUrl = DataUrl(generateImage(act'.req.prompt))]_vars

\* C10: a save commits the draft whatever the image outcome: the
\* continuation of a save's image request, on success and on failure, and a
\* save that requests no image hand the draft to handleUpdateScene, and after
\* every update applied to a stored Script the store holds the draft at the
\* update's index (handleUpdateScene drops an update that finds no Script,
\* and React drops one that arrives after the tree was unmounted).
C10_CommitRegardless ==
  /\ (act.name = "ImageResponse" /\ act.req.kind = "save") =>
       /\ updates # <<>>
       /\ updates[1].scene = act.req.draft
       /\ updates[1].index = act.req.index
  /\ \A k \in DOMAIN saves :
       saves[k].reqs = <<>> =>
         \E u \in DOMAIN updates : updates[u].scene = saves[k].draft
  /\ \A u \in DOMAIN updates :
       updates[u].applied =>
         ArrayGet(movieScript.scenes, updates[u].index) = updates[u].scene

\* C10 witness: the image request of a save has failed and the edited draft
\* is in the store.
C10_Witness ==
  /\ act.name = "ImageResponse" /\ act.req.kind = "save" /\ ~act.ok
  /\ act.req.draft.imagePrompt # act.req.scenePrompt
  /\ updates # <<>> /\ updates[1].applied
  /\ ArrayGet(movieScript.scenes, act.req.index) = act.req.draft

\* C11: Cancel returns the card to Viewing with the draft equal to the
\* committed scene; the Scene Store, the outstanding image requests, the
\* card's image, pending flag and error, and every other card are as before.
C11_CancelDiscards ==
  [][act'.name = "Cancel" =>
       /\ movieScript' = movieScript
       /\ imageReqs' = imageReqs
       /\ updates' = <<>> /\ saves' = <<>>
       /\ Len(cards') = Len(cards)
       /\ \A k \in DOMAIN cards :
            IF cards[k].inst = act'.inst
            THEN /\ cards'[k].inst = cards[k].inst
                 /\ ~cards'[k].isEditing
                 /\ cards'[k].editedScene = cards'[k].scene
                 /\ cards'[k].scene = cards[k].scene
                 /\ cards'[k].imageUrl = cards[k].imageUrl
                 /\ cards'[k].isGeneratingImage = cards[k].isGeneratingImage
                 /\ cards'[k].imageError = cards[k].imageError
            ELSE cards'[k] = cards[k]]_vars

\* C11 witness: Cancel was pressed on a card that showed an image error while
\* the save signal was set, and the error is still shown.
C11_Witness ==
  /\ act.name = "Cancel" /\ saveTrigger > 0
  /\ \E k \in DOMAIN cards :
       cards[k].inst = act.inst /\ cards[k].imageError /\ ~cards[k].isEditing

\* C12: a save of a card has applied its commit before a later image request
\* of that card begins: no request of a mounted card was issued after a save
\* request of the same card that is still outstanding (imageReqs is kept in
\* the order of issue).
C12_CommitBeforeNextRequest ==
  \A i, j \in DOMAIN imageReqs :
    (/\ i < j
     /\ imageReqs[i].inst # 0
     /\ imageReqs[i].inst = imageReqs[j].inst)
    => imageReqs[i].kind # "save"

\* C13: Generate pressed with an idea that holds nothing but white space
\* sets the error message and stops: no script request is outstanding, the
\* loading flag is not set and the stored Script is the one stored before.
C13_EmptyIdeaAborts ==
  [][(/\ act'.name \in {"GenerateEmpty", "GenerateStart"}
      /\ \A i \in DOMAIN idea : idea[i] = 32)
     => /\ error' = ErrEmptyIdea
        /\ ~scriptReq'
        /\ ~isLoading'
        /\ movieScript' = movieScript]_vars

\* C13 witness: Generate was pressed with the idea " " while a Script with a
\* scene was stored.
C13_Witness ==
  /\ act.name = "GenerateEmpty" /\ idea = <<32>>
  /\ error = ErrEmptyIdea
  /\ ~movieScript.isNull /\ movieScript.scenes # <<>>

HasRequiredShape(value) ==
  /\ value.type = "object" /\ value.hasScenes
  /\ value.scenes # <<>>
  /\ \A i \in DOMAIN value.scenes :
       /\ value.scenes[i].title # "" /\ value.scenes[i].description # ""
       /\ value.scenes[i].dialogue # "" /\ value.scenes[i].imagePrompt # <<>>

\* C15: generateMovieScript returns a Script exactly when the idea is not
\* empty after trimming, the upstream call resolved and its text is the JSON
\* text of a value of the required shape; it fails otherwise, so every Script
\* returned has the required shape.
C15_ClientValidates ==
  clientCall.done =>
    /\ clientCall.result.kind = "script" <=>
         /\ \E i \in DOMAIN clientCall.idea : clientCall.idea[i] # 32
         /\ ~clientCall.upstream.rejected
         /\ clientCall.upstream.text.kind = "json"
         /\ HasRequiredShape(clientCall.upstream.text.value)
    /\ clientCall.result.kind = "script" => HasRequiredShape(clientCall.result.value)

\* C16: a card that displays a placeholder displays the one whose seed is the
\* sum of the character codes of its committed scene's imagePrompt plus the
\* card's 1-based position.
C16_PlaceholderSeed ==
  \A k \in DOMAIN cards :
    IsPlaceholder(cards[k].imageUrl) =>
      cards[k].imageUrl.seed = SumCodes(cards[k].scene.imagePrompt) + k

\* C17: handleSave runs for a card only in the task of a press of that
\* card's Save button or in the task that increases the save signal (there
\* as the signal's call): no other task issues an image request or a store
\* update by saving.
C17_CommitOnlyOnSave ==
  \A k \in DOMAIN saves :
    \/ act.name = "Save" /\ saves[k].inst = act.inst /\ saves[k].via = "button"
    \/ act.name = "SaveAll" /\ saves[k].via = "signal"

\* The stored scenes are scenes with pairwise distinct identifiers (keyed
\* rendering then keeps every card whose scene stays in the store).
DistinctIds(script) ==
  /\ ~script.isNull
  /\ \A i \in DOMAIN script.scenes : script.scenes[i].kind = "scene"
  /\ \A i, j \in DOMAIN script.scenes :
       i # j => script.scenes[i].id # script.scenes[j].id

\* C18: a reorder made from another card and an image response of another
\* card leave the draft of a card in Editing with the field values it had.
C18_DraftKept ==
  [][\A k \in DOMAIN cards : \A j \in DOMAIN cards' :
       (/\ act'.name \in {"Reorder", "ImageResponse"}
        /\ act'.inst # cards[k].inst
        /\ DistinctIds(movieScript) /\ DistinctIds(movieScript')
        /\ cards[k].isEditing
        /\ cards'[j].inst = cards[k].inst
        /\ cards'[j].scene.id = cards[k].scene.id)
       => SameFields(cards'[j].editedScene, cards[k].editedScene)]_vars

\* C19: the pending flag of a card is set exactly while an image request of
\* that card is outstanding.
C19_PendingIffOutstanding ==
  \A k \in DOMAIN cards :
    cards[k].isGeneratingImage <=> Requests(imageReqs, cards[k].inst) # {}

\* C20: a response that arrives for a card that is still displayed is shown
\* by that card: the returned image after a success, a placeholder with the
\* error after a failure, whatever has changed since the request was sent.
C20_ResponseApplied ==
  [][\A j \in DOMAIN cards : \A k \in DOMAIN cards' :
       (/\ act'.name = "ImageResponse" /\ act'.inst # 0
        /\ cards[j].inst = act'.inst /\ cards'[k].inst = act'.inst
        /\ cards'[k].scene.id = cards[j].scene.id
        /\ DistinctIds(movieScript'))
       => IF act'.ok
          THEN cards'[k].imageUrl = DataUrl(generateImage(act'.req.prompt))
          ELSE IsPlaceholder(cards'[k].imageUrl) /\ cards'[k].imageError]_vars

\* C21: at most one image request of a card is outstanding at any time: no
\* Save, Retry or save signal issues a request for a mounted card while an
\* earlier request of that card has not settled.
C21_OneOutstandingPerCard ==
  \A k \in DOMAIN cards :
    cards[k].inst # 0 => Cardinality(Requests(imageReqs, cards[k].inst)) <= 1

\* C22: while the loading flag is set, a script request is outstanding, no
\* script is stored and no error message is shown; Generate does not start
\* while the flag is set or a script request is outstanding (so the
\* outstanding request is the only one); and no update of a card of the
\* previous script stores a script while the flag is set.
C22_LoadingState ==
  /\ [](isLoading => (scriptReq /\ movieScript.isNull /\ error = "none"))
  /\ [][(act'.name \in {"GenerateStart", "GenerateEmpty"}
            => (~isLoading /\ ~scriptReq))
         /\ ((isLoading /\ isLoading') => movieScript'.isNull)]_vars

\* A save of a card of the previous script settles while the next script is
\* loading: its update is made and the store stays empty.
C22_Witness ==
  /\ isLoading /\ scriptReq /\ movieScript.isNull
  /\ act.name = "ImageResponse" /\ act.req.kind = "save"
  /\ updates # <<>>

====
